---- MODULE Spec2Model ----
(***************************************************************************)
(* Model of the sliding puzzle of src/src/App.tsx (component App).         *)
(*                                                                         *)
(* The React state of the component is the state of the model.  Arrays are *)
(* JavaScript objects: a grid is an outer array of references to row       *)
(* arrays, and the spread copy [...grid] copies the references, not the    *)
(* rows.  The model therefore keeps a heap of row arrays (heap) and lets   *)
(* puzzle, originalPuzzle and currentPuzzle hold row references.  An outer *)
(* array is never written after it is built, so it is modelled by value.   *)
(*                                                                         *)
(* Every action is one run-to-completion task of the event loop: the code  *)
(* between two awaits, one event handler, or one interval callback,        *)
(* together with the state updates it queues (React commits them before    *)
(* the next task runs).                                                    *)
(***************************************************************************)
EXTENDS Integers, Sequences, FiniteSets, TLC

gridSize == 4
maxShuffles == 10

\* setInterval(..., 1000)
intervalMs == 1000

\* Bound of the model: the number of clicks of one session.
MaxClicks == 2

Empty == 0                       \* the empty string "" of the source
Idx == 0 .. (gridSize - 1)
Pos == [row : Idx, col : Idx]
\* A click can only come from one of the rendered cells (onMouseDown of cell i, j).
ClickPos == Pos

VARIABLES
    pc,              \* position of processImage / shufflePuzzle
    heap,            \* row arrays: reference -> content
    puzzle,          \* state puzzle: row index -> row reference
    originalPuzzle,  \* state originalPuzzle: row index -> row reference
    emptySlot,       \* state emptySlot
    isLoading,       \* state isLoading
    moves,           \* state moves
    time,            \* state time
    startTime,       \* state startTime
    isSolved,        \* state isSolved
    currentPuzzle,   \* local of shufflePuzzle: row index -> row reference
    emptyPos,        \* local of shufflePuzzle
    i,               \* loop counter of shufflePuzzle
    intervals,       \* running intervals, each by the startTime its closure holds
    lastNow,         \* the last value Date.now() returned to handleTileClick
    nClicks,         \* number of clicks so far
    lastOp           \* the kind of task that produced this state

vars == <<pc, heap, puzzle, originalPuzzle, emptySlot, isLoading, moves, time,
          startTime, isSolved, currentPuzzle, emptyPos, i, intervals, lastNow,
          nClicks, lastOp>>

Abs(n) == IF n < 0 THEN -n ELSE n

\* Array.from({ length: gridSize }, () => Array(gridSize).fill(""))
EmptyRow == [c \in Idx |-> Empty]
Ref(kind, r) == <<kind, r>>
GridOf(kind) == [r \in Idx |-> Ref(kind, r)]

\* The content of a grid of references, read through the heap.
Content(h, g) == [r \in Idx |-> [c \in Idx |-> h[g[r]][c]]]

\* result[row * gridSize + col].dataUrl: the slice of cell (row, col), one
\* distinct image per cell, numbered from 1.
dataUrl(row, col) == row * gridSize + col + 1

\* initialPuzzle of processImage, after its last slot is set to "".
initialPuzzle ==
    [r \in Idx |-> [c \in Idx |->
        IF r = gridSize - 1 /\ c = gridSize - 1 THEN Empty ELSE dataUrl(r, c)]]

\* getValidMoves with the bounds test keeping only the inner cells.
getValidMovesInterior(p) ==
    LET cand == << [row |-> p.row - 1, col |-> p.col],
                   [row |-> p.row + 1, col |-> p.col],
                   [row |-> p.row, col |-> p.col - 1],
                   [row |-> p.row, col |-> p.col + 1] >>
        inGrid(m) == m.row > 0 /\ m.row < gridSize - 1 /\ m.col > 0 /\ m.col < gridSize - 1
    IN SelectSeq(cand, inGrid)

\* getValidMoves with the move up replaced by the diagonal move up and left.
getValidMovesDiagonal(p) ==
    LET cand == << [row |-> p.row - 1, col |-> p.col - 1],
                   [row |-> p.row + 1, col |-> p.col],
                   [row |-> p.row, col |-> p.col - 1],
                   [row |-> p.row, col |-> p.col + 1] >>
        inGrid(m) == m.row >= 0 /\ m.row < gridSize /\ m.col >= 0 /\ m.col < gridSize
    IN SelectSeq(cand, inGrid)

getValidMovesStrict(p) ==
    LET cand == << [row |-> p.row - 1, col |-> p.col],
                   [row |-> p.row + 1, col |-> p.col],
                   [row |-> p.row, col |-> p.col - 1],
                   [row |-> p.row, col |-> p.col + 1] >>
        inGrid(m) == m.row > 0 /\ m.row < gridSize /\ m.col >= 0 /\ m.col < gridSize
    IN SelectSeq(cand, inGrid)

getValidMoves(p) ==
    LET cand == << [row |-> p.row - 1, col |-> p.col],
                   [row |-> p.row + 1, col |-> p.col],
                   [row |-> p.row, col |-> p.col - 1],
                   [row |-> p.row, col |-> p.col + 1] >>
        inGrid(m) == m.row >= 0 /\ m.row < gridSize /\ m.col >= 0 /\ m.col < gridSize
    IN SelectSeq(cand, inGrid)

isAdjacentSameRow(row, col, e) ==
    Abs(col - e.col) = 1 /\ row = e.row

\* isAdjacent with "at most 1" for "exactly 1": the empty cell itself passes.
isAdjacentOrSelf(row, col, e) ==
    \/ (Abs(row - e.row) <= 1 /\ col = e.col)
    \/ (Abs(col - e.col) <= 1 /\ row = e.row)

isAdjacent(row, col, e) ==
    \/ (Abs(row - e.row) = 1 /\ col = e.col)
    \/ (Abs(col - e.col) = 1 /\ row = e.row)

SwapIntoNoClear(h, g, e, row, col) ==
    [h EXCEPT ![g[e.row]][e.col] = h[g[row]][col]]

\* g[e.row][e.col] = g[row][col]; g[row][col] = "" on the rows g refers to.
\* The two writes are applied in order, as the two assignments are.
SwapInto(h, g, e, row, col) ==
    LET h1 == [h EXCEPT ![g[e.row]][e.col] = h[g[row]][col]]
    IN [h1 EXCEPT ![g[row]][col] = Empty]

\* Date.now() in handleTileClick: the value of the last reading or a later one.
\* Only the order of two readings and whether they are equal matter to the
\* program, so the first reading is 1 and a later reading is the next value.
Now == { t \in {lastNow, lastNow + 1} : t >= 1 }

Init ==
    /\ pc = "slicing"
    /\ heap = [ref \in ({"p", "o"} \X Idx) |-> EmptyRow]
    /\ puzzle = GridOf("p")
    /\ originalPuzzle = GridOf("o")
    /\ emptySlot = [row |-> 3, col |-> 3]
    /\ isLoading = FALSE
    /\ moves = 0
    /\ time = 0
    /\ startTime = 0
    /\ isSolved = FALSE
    /\ currentPuzzle = GridOf("p")
    /\ emptyPos = [row |-> 3, col |-> 3]
    /\ i = 0
    /\ intervals = {}
    /\ lastNow = 0
    /\ nClicks = 0
    /\ lastOp = "init"

ShuffleIterationStaleSlot(h, k) ==
    LET validMoves == getValidMoves(emptyPos)
        nextMove == validMoves[k]
    IN /\ heap' = SwapInto(h, currentPuzzle', emptyPos, nextMove.row, nextMove.col)
       /\ emptyPos' = nextMove
       /\ puzzle' = currentPuzzle'
       /\ emptySlot' = emptyPos
       /\ lastOp' = "shuffle"

\* One iteration of the loop of shufflePuzzle on heap h, up to its await.
ShuffleIteration(h, k) ==
    LET validMoves == getValidMoves(emptyPos)
        nextMove == validMoves[k]
    IN /\ heap' = SwapInto(h, currentPuzzle', emptyPos, nextMove.row, nextMove.col)
       /\ emptyPos' = nextMove
       /\ puzzle' = currentPuzzle'
       /\ emptySlot' = nextMove
       /\ lastOp' = "shuffle"

\* sliceImageIntoGrid resolves: the rest of processImage, and shufflePuzzle
\* up to its first await.
ProcessImage ==
    /\ pc = "slicing"
    /\ LET h == [ref \in (DOMAIN heap) \cup ({"s"} \X Idx) |->
                    IF ref \in DOMAIN heap THEN heap[ref] ELSE initialPuzzle[ref[2]]]
       IN /\ originalPuzzle' = GridOf("s")
          /\ currentPuzzle' = GridOf("s")
          /\ isLoading' = TRUE
          /\ i' = 0
          /\ \E k \in 1 .. Len(getValidMoves(emptyPos)) : ShuffleIteration(h, k)
    /\ pc' = "shuffling"
    /\ UNCHANGED <<moves, time, startTime, isSolved, intervals, lastNow, nClicks>>

\* The image fails to load: sliceImageIntoGrid rejects, processImage ends.
ImageLoadError ==
    /\ pc = "slicing"
    /\ pc' = "failed"
    /\ lastOp' = "loadError"
    /\ UNCHANGED <<heap, puzzle, originalPuzzle, emptySlot, isLoading, moves, time,
                   startTime, isSolved, currentPuzzle, emptyPos, i, intervals,
                   lastNow, nClicks>>

\* delay(10) resolves and the loop goes round again.
ShuffleStep ==
    /\ pc = "shuffling"
    /\ i + 1 < maxShuffles
    /\ i' = i + 1
    /\ UNCHANGED currentPuzzle
    /\ \E k \in 1 .. Len(getValidMoves(emptyPos)) : ShuffleIteration(heap, k)
    /\ UNCHANGED <<pc, originalPuzzle, isLoading, moves, time, startTime, isSolved,
                   intervals, lastNow, nClicks>>

\* delay(10) resolves and the loop ends.  shufflePuzzle returns: its local
\* emptyPos is gone, and is given its first value again.
ShuffleEnd ==
    /\ pc = "shuffling"
    /\ ~(i + 1 < maxShuffles)
    /\ i' = i + 1
    /\ isLoading' = FALSE
    /\ pc' = "done"
    /\ lastOp' = "shuffleEnd"
    /\ emptyPos' = [row |-> 3, col |-> 3]
    /\ UNCHANGED <<heap, puzzle, originalPuzzle, emptySlot, moves, time, startTime,
                   isSolved, currentPuzzle, intervals, lastNow, nClicks>>

\* The body of handleTileClick after its isLoading guard, and the effect on
\* [startTime] that runs startTimer when the click changed startTime.  The
\* updates are committed together, so the order of the conjuncts is free.
ClickBody(row, col) ==
    IF isAdjacent(row, col, emptySlot)
    THEN /\ emptySlot' = [row |-> row, col |-> col]
         /\ heap' = SwapInto(heap, puzzle, emptySlot, row, col)
         /\ puzzle' = puzzle
         /\ moves' = moves + 1
         /\ IF time = 0
            THEN \E t \in Now :
                    /\ lastNow' = t
                    /\ startTime' = t
                    /\ intervals' = IF t # startTime
                                    THEN intervals \cup {t} ELSE intervals
            ELSE UNCHANGED <<startTime, intervals, lastNow>>
    ELSE UNCHANGED <<heap, puzzle, emptySlot, moves, startTime, intervals, lastNow>>

\* What a click leaves alone whatever it does, and the count of clicks.
ClickFrame ==
    /\ nClicks < MaxClicks
    /\ nClicks' = nClicks + 1
    /\ lastOp' = "click"
    /\ UNCHANGED <<pc, originalPuzzle, isLoading, time, isSolved, currentPuzzle,
                   emptyPos, i>>

handleTileClickUnguarded(row, col) ==
    /\ ClickFrame
    /\ ClickBody(row, col)

\* onMouseDown of cell (row, col).
handleTileClick(row, col) ==
    /\ ClickFrame
    /\ IF isLoading
       THEN UNCHANGED <<heap, puzzle, emptySlot, moves, startTime, intervals, lastNow>>
       ELSE ClickBody(row, col)

\* checkPuzzleComplete's isComplete, on the state of the current render.
isComplete ==
    \A r \in Idx : \A c \in Idx : heap[originalPuzzle[r]][c] = heap[puzzle[r]][c]

\* A callback of setInterval fires.  Its closure holds isSolved = FALSE, so it
\* never clears its interval, and the startTime s of its render.  It sets time
\* to Date.now() - s, which is at least the period of the interval; the program
\* reads time only in the test time === 0, and reads the clock no more once
\* time is not 0, so every firing is given the elapsed time of the first.
TimerTick ==
    /\ intervals # {}
    /\ time' = intervalMs
    /\ lastOp' = "tick"
    /\ UNCHANGED <<pc, heap, puzzle, originalPuzzle, emptySlot, isLoading, moves,
                   startTime, isSolved, currentPuzzle, emptyPos, i, intervals,
                   lastNow, nClicks>>

Next ==
    \/ ProcessImage
    \/ ImageLoadError
    \/ ShuffleStep
    \/ ShuffleEnd
    \/ \E p \in ClickPos : handleTileClick(p.row, p.col)
    \/ TimerTick

Spec == Init /\ [][Next]_vars

\* processImage and shufflePuzzle with maxShuffles set to 0: the loop body,
\* the only place where setPuzzle and setEmptySlot are called, never runs, and
\* setIsLoading(false) follows setIsLoading(true) in the same task.
ProcessImageNoSteps ==
    /\ pc = "slicing"
    /\ heap' = [ref \in (DOMAIN heap) \cup ({"s"} \X Idx) |->
                   IF ref \in DOMAIN heap THEN heap[ref] ELSE initialPuzzle[ref[2]]]
    /\ originalPuzzle' = GridOf("s")
    /\ currentPuzzle' = GridOf("s")
    /\ isLoading' = FALSE
    /\ i' = 0
    /\ pc' = "done"
    /\ lastOp' = "shuffleEnd"
    /\ UNCHANGED <<puzzle, emptySlot, emptyPos, moves, time, startTime, isSolved,
                   intervals, lastNow, nClicks>>

NextNoSteps ==
    \/ ProcessImageNoSteps
    \/ ImageLoadError
    \/ \E p \in ClickPos : handleTileClick(p.row, p.col)
    \/ TimerTick

\* The program with a shuffle of no steps.
SpecNoSteps == Init /\ [][NextNoSteps]_vars

\* The continuation of shufflePuzzle after `await delay(10)`: the timeout
\* fires and the event loop resumes the function, so a pending step or the
\* end of the shuffle is eventually taken.
FairSpec == Spec /\ WF_vars(ShuffleStep) /\ WF_vars(ShuffleEnd)

(***************************************************************************)
(* Properties.                                                             *)
(***************************************************************************)

\* The content of the state puzzle, as the render reads it.
grid == Content(heap, puzzle)

\* The slices have been installed: processImage has run past its await.
loaded == pc \in {"shuffling", "done"}

Manhattan(p, q) == Abs(p.row - q.row) + Abs(p.col - q.col)
Tiles == 1 .. (gridSize * gridSize - 1)
Range(seq) == { seq[n] : n \in 1 .. Len(seq) }
Border == {0, gridSize - 1}

\* A step that is a click, whatever the click did.
ClickStep == nClicks' = nClicks + 1

\* C1: once the grid is built from the slices, after any shuffle steps and
\* user moves it has exactly one empty cell and each of the N*N-1 tiles
\* exactly once.  There are as many cells as there are tiles and the empty
\* marker together, so this is: every one of them is in some cell.
C1_TilesPreserved ==
    loaded =>
        /\ { heap[puzzle[p.row]][p.col] : p \in Pos } = Tiles \cup {Empty}
        /\ Cardinality(Pos) = Cardinality(Tiles) + 1

\* The shuffle is over and both clicks of the session were applied as moves,
\* the last one after the shuffle.
C1_Witness ==
    /\ pc = "done"
    /\ lastOp = "click"
    /\ i = maxShuffles
    /\ nClicks = 2
    /\ moves = 2

\* C2: in every state between two tasks, the cell emptySlot names holds the
\* empty marker, and once the grid is built it is the only cell that does.
C2_EmptySlotTracksMarker ==
    /\ heap[puzzle[emptySlot.row]][emptySlot.col] = Empty
    /\ loaded => \A p \in Pos : heap[puzzle[p.row]][p.col] = Empty => p = emptySlot

\* The loop of the shuffle waits in its fifth delay, the empty cell moved away.
C2_Witness ==
    /\ pc = "shuffling"
    /\ lastOp = "shuffle"
    /\ i = 4
    /\ emptySlot = [row |-> 1, col |-> 2]

\* C3: a click on a position p at Manhattan distance 1 of emptySlot, while
\* isLoading is false, moves the tile of p into the former empty cell, empties
\* p, leaves every other cell alone and sets emptySlot to p.  The positions at
\* distance 1 are the four one step away in a row or a column, when in the grid.
C3_AdjacentClickSlides ==
    [][(ClickStep /\ ~isLoading) =>
          \A d \in {<<-1, 0>>, <<1, 0>>, <<0, -1>>, <<0, 1>>} :
             LET p == [row |-> emptySlot.row + d[1], col |-> emptySlot.col + d[2]]
             IN (p \in Pos /\ Manhattan(p, emptySlot) = 1
                            /\ handleTileClick(p.row, p.col))
                => /\ emptySlot' = p
                   /\ grid' = [grid EXCEPT
                                  ![emptySlot.row][emptySlot.col] = grid[p.row][p.col],
                                  ![p.row][p.col] = Empty]]_vars

\* The only click of the session came after the shuffle and was applied.
C3_Witness ==
    /\ pc = "done"
    /\ lastOp = "click"
    /\ nClicks = 1
    /\ moves = 1
    /\ startTime # 0

\* C4: a click on a position that is not at Manhattan distance 1 of emptySlot
\* (diagonal, distant, or the empty cell itself) changes neither the grid, nor
\* emptySlot, nor moves, nor startTime.  Stated by its contrapositive: a click
\* step that changes one of them is the click of no such position.
C4_NonAdjacentClickIsNoOp ==
    [][(ClickStep /\ ~(UNCHANGED <<emptySlot, moves, startTime, puzzle, heap>>)) =>
          \A p \in Pos :
             Manhattan(p, emptySlot) # 1 => ~handleTileClick(p.row, p.col)]_vars

\* The only click of the session came after the shuffle and changed nothing.
C4_Witness ==
    /\ pc = "done"
    /\ lastOp = "click"
    /\ nClicks = 1
    /\ moves = 0
    /\ startTime = 0

\* C5: for the position the shuffle hands to getValidMoves, the result is
\* exactly the orthogonal neighbours inside the grid, each once: 2 for a
\* corner, 3 for another border cell, 4 for an interior cell, and (2,3) and
\* (3,2) for (3,3).
C5_ValidMoves ==
    LET vm == getValidMoves(emptyPos)
        onBorder == Cardinality({emptyPos.row} \cap Border)
                    + Cardinality({emptyPos.col} \cap Border)
    IN /\ Range(vm) = { q \in Pos : Manhattan(emptyPos, q) = 1 }
       /\ Len(vm) = 4 - onBorder
       /\ Cardinality(Range(vm)) = Len(vm)
       /\ emptyPos = [row |-> 3, col |-> 3]
            => Range(vm) = { [row |-> 2, col |-> 3], [row |-> 3, col |-> 2] }

\* The shuffle has brought the empty cell to an interior position.
C5_Witness ==
    /\ pc = "shuffling"
    /\ emptyPos = [row |-> 1, col |-> 1]
    /\ Len(getValidMoves(emptyPos)) = 4

\* C6: from the first step of the shuffle until its loop has ended isLoading
\* is true, and a click in that time changes neither the grid, nor emptySlot,
\* nor moves.
C6_NoMoveDuringShuffle ==
    /\ [](pc = "shuffling" => isLoading)
    /\ [][(pc = "shuffling" /\ ClickStep)
            => UNCHANGED <<heap, puzzle, emptySlot, moves>>]_vars

\* A click arrived while the loop of the shuffle waited in its fourth delay.
C6_Witness ==
    /\ pc = "shuffling"
    /\ lastOp = "click"
    /\ i = 3
    /\ isLoading
    /\ moves = 0

\* C7: a click that arrives while sliceImageIntoGrid is pending changes
\* neither the grid, nor emptySlot, nor moves, nor startTime.
C7_NoMoveBeforeSliced ==
    [][(pc = "slicing" /\ ClickStep)
         => UNCHANGED <<heap, puzzle, emptySlot, moves, startTime>>]_vars

\* C8: once the grid is built, the solved check is true exactly when the
\* grid is the arrangement processImage built before the shuffle.
C8_SolvedCheckExact ==
    loaded => (isComplete <=> grid = initialPuzzle)

\* C9: the content of originalPuzzle stays the arrangement processImage
\* recorded before the shuffle.
C9_OriginalNeverChanges ==
    loaded => Content(heap, originalPuzzle) = initialPuzzle

\* C10: a user move that brings the grid back to the original arrangement
\* sets isSolved, and no step of the shuffle sets it.
C10_SolvedAfterUserMove ==
    [][/\ (pc = "done" /\ ClickStep /\ grid' # grid /\ grid' = initialPuzzle)
          => isSolved'
       /\ lastOp' \in {"shuffle", "shuffleEnd"} => isSolved' = isSolved]_vars

\* A position the user plays on: the content of the grid and the empty slot.
Solved == [g |-> initialPuzzle, e |-> [row |-> gridSize - 1, col |-> gridSize - 1]]

\* The positions a click of handleTileClick turns position s into when
\* isLoading is false and the click is applied: its swap on the rows of s,
\* and the clicked cell as the new empty slot.
UserMoves(s) ==
    LET g == GridOf("s")
        h == [ref \in {"s"} \X Idx |-> s.g[ref[2]]]
    IN { [g |-> Content(SwapInto(h, g, s.e, p.row, p.col), g), e |-> p] :
            p \in { q \in Pos : isAdjacent(q.row, q.col, s.e) } }

\* The positions from which at most n applied clicks lead to Solved.  The
\* positions one click further away are looked for among the neighbours of the
\* ones found, and kept when one of their own clicks leads back among them.
RECURSIVE SolvableWithin(_)
SolvableWithin(n) ==
    IF n = 0
    THEN {Solved}
    ELSE LET S == SolvableWithin(n - 1)
         IN S \cup { t \in UNION { UserMoves(s) : s \in S } : UserMoves(t) \cap S # {} }

Solvable == SolvableWithin(maxShuffles)

\* C11: the position the shuffle ends in can be solved: some sequence of
\* applied user clicks, no longer than the shuffle, leads from it to the
\* original arrangement with the empty slot at (3,3).
C11_ShuffleEndsSolvable ==
    (pc = "done" /\ lastOp = "shuffleEnd")
        => [g |-> grid, e |-> emptySlot] \in Solvable

\* The shuffle has ended in a position that is not the solved one, and clicks
\* are accepted.
C11_Witness ==
    /\ pc = "done"
    /\ lastOp = "shuffleEnd"
    /\ ~isLoading
    /\ grid # initialPuzzle
    /\ [g |-> grid, e |-> emptySlot] \in Solvable

\* C12 as stated: when the shuffle of maxShuffles steps completes, the grid
\* differs from the original solved arrangement.
C12_ShuffleScrambles ==
    (pc = "done" /\ lastOp = "shuffleEnd") => grid # initialPuzzle

\* C12: every step of the shuffle changes the grid, and when the shuffle
\* completes the grid differs from the original solved arrangement unless the
\* steps have brought the empty slot back to (3,3).
C12_ScrambledUnlessReturned ==
    /\ [](  (pc = "done" /\ lastOp = "shuffleEnd" /\ emptySlot # Solved.e)
              => grid # initialPuzzle)
    /\ [][lastOp' = "shuffle" => grid' # grid]_vars

\* The shuffle has completed with the empty slot away from (3,3).
C12_Witness ==
    /\ pc = "done"
    /\ lastOp = "shuffleEnd"
    /\ i = maxShuffles
    /\ emptySlot = [row |-> 2, col |-> 2]
    /\ grid # initialPuzzle

\* C13: the shuffle cannot stall: at every step getValidMoves is non-empty,
\* the loop applies exactly maxShuffles steps (i + 1 of them after the step
\* numbered i), and once started the shuffle eventually ends with isLoading
\* cleared, the only guard of handleTileClick.
C13_ShuffleTerminates ==
    /\ [](pc \in {"slicing", "shuffling"} => Len(getValidMoves(emptyPos)) > 0)
    /\ [](pc = "shuffling" => i < maxShuffles)
    /\ [](pc = "done" => (i = maxShuffles /\ ~isLoading))
    /\ [][lastOp' = "shuffle" => i' = (IF pc = "slicing" THEN 0 ELSE i + 1)]_vars
    /\ (pc = "shuffling" ~> (pc = "done" /\ ~isLoading))

\* The shuffle has applied its last step and ended; a click has then been
\* applied.
C13_Witness ==
    /\ pc = "done"
    /\ i = maxShuffles
    /\ ~isLoading
    /\ lastOp = "click"
    /\ moves = 1
    /\ nClicks = 1

AboveLast == [row |-> gridSize - 2, col |-> gridSize - 1]
ScenarioAGrid ==
    [initialPuzzle EXCEPT ![Solved.e.row][Solved.e.col] = dataUrl(AboveLast.row, AboveLast.col),
                          ![AboveLast.row][AboveLast.col] = Empty]
AfterScenarioA == pc = "done" /\ emptySlot = AboveLast /\ grid = ScenarioAGrid

\* C15 as stated: after the move at (2,3) on the solved grid, the move at (2,3)
\* again returns the empty slot to (3,3) and the grid to the original.
C15_SameMoveTwice ==
    [][(AfterScenarioA /\ ClickStep /\ handleTileClick(AboveLast.row, AboveLast.col))
          => (emptySlot' = Solved.e /\ grid' = initialPuzzle)]_vars

\* C15: on the solved grid with the empty slot at (3,3) the move at (2,3)
\* gives the grid of Scenario A with the empty slot at (2,3); from there the
\* move at (3,3), the cell the tile went to, returns the empty slot to (3,3)
\* and the grid to the original, and a second click at (2,3), now the empty
\* cell itself, changes nothing.
C15_MoveAndMoveBack ==
    /\ [][(/\ pc = "done"
           /\ emptySlot = Solved.e
           /\ grid = initialPuzzle
           /\ ClickStep
           /\ handleTileClick(AboveLast.row, AboveLast.col))
             => (emptySlot' = AboveLast /\ grid' = ScenarioAGrid)]_vars
    /\ [][(AfterScenarioA /\ ClickStep)
             => /\ handleTileClick(Solved.e.row, Solved.e.col)
                   => (emptySlot' = Solved.e /\ grid' = initialPuzzle)
                /\ handleTileClick(AboveLast.row, AboveLast.col)
                   => UNCHANGED <<emptySlot, heap, puzzle, moves>>]_vars

\* Two clicks have been applied after the shuffle and the grid is the original
\* one again, the empty slot at (3,3).
C15_Witness ==
    /\ pc = "done"
    /\ lastOp = "click"
    /\ nClicks = 2
    /\ moves = 2
    /\ emptySlot = Solved.e
    /\ grid = initialPuzzle

C17_MoveRoundTrip ==
    [][(ClickStep /\ ~isLoading /\ emptySlot' # emptySlot)
          => /\ isAdjacent(emptySlot.row, emptySlot.col, emptySlot')
             /\ Content(SwapInto(heap', puzzle', emptySlot', emptySlot.row, emptySlot.col),
                        puzzle') = grid]_vars

\* Two clicks have been applied to the shuffled grid, the second from an
\* inner cell.
C17_Witness ==
    /\ pc = "done"
    /\ lastOp = "click"
    /\ nClicks = 2
    /\ moves = 2
    /\ emptySlot = [row |-> 1, col |-> 1]
    /\ grid # initialPuzzle

\* C18: moves counts the clicks applied as slides on the shuffled puzzle: it is
\* 0 when the shuffle completes, it goes up by exactly 1 with every click that
\* is applied (the empty slot moves), and no other step changes it: no step of
\* the shuffle, no click while isLoading, no click on a cell that is not
\* adjacent.
C18_MovesCountsSlides ==
    /\ []((pc = "done" /\ lastOp = "shuffleEnd") => moves = 0)
    /\ [][IF ClickStep /\ emptySlot' # emptySlot
          THEN ~isLoading /\ moves' = moves + 1
          ELSE moves' = moves]_vars

\* C19: at most one interval is ever started, and once startTime is set no
\* later click sets it again.
C19_OneTimer ==
    /\ [](Cardinality(intervals) <= 1)
    /\ [][startTime # 0 => startTime' = startTime]_vars

====
